---- MODULE Spec2Model ----
(***************************************************************************)
(* Model of gs2xls.py: a GeoServer catalog is fetched (workspaces, stores, *)
(* layer groups, layers, styles), normalised into lists of records, and    *)
(* written to a workbook of cross-linked sheets.                           *)
(*                                                                         *)
(* Strings are sequences of character codes, so that Python's string       *)
(* order, slicing, join, split and replace are computed on characters.     *)
(***************************************************************************)
EXTENDS Integers, Sequences, FiniteSets, TLC

(* ---------------------------- bounds ----------------------------------- *)
\* largest number of layer groups in a catalog
MaxGroups == 2
\* largest total number of member entries over all groups of a catalog
MaxMembers == 3
\* largest number of stores in a catalog
MaxStores == 2

(* ------------------------- string constants ---------------------------- *)
\* 'N/A'
NA == <<78, 47, 65>>
\* Python None, and an attribute that does not exist on the object
None == <<-2>>
Absent == <<-1>>
\* str(None)
NoneStr == <<78, 111, 110, 101>>
\* 'cgs:'
CGS == <<99, 103, 115, 58>>
\* ', '
SEP == <<44, 32>>
\* 'EPSG:'
EPSG == <<69, 80, 83, 71, 58>>
\* "Layer" and "Layer Group" (the Type column of a group worksheet)
TypeLayer == <<76, 97, 121, 101, 114>>
TypeLayerGroup == <<76, 97, 121, 101, 114, 32, 71, 114, 111, 117, 112>>
\* sheet titles
TWorkspaces == <<87, 111, 114, 107, 115, 112, 97, 99, 101, 115>>
TStores == <<83, 116, 111, 114, 101, 115>>
TLayerGroups == <<76, 97, 121, 101, 114, 32, 71, 114, 111, 117, 112, 115>>
TLayers == <<76, 97, 121, 101, 114, 115>>
TStyles == <<83, 116, 121, 108, 101, 115>>
\* 'Group '
GroupPrefix == <<71, 114, 111, 117, 112, 32>>
\* the connection parameter geoserver_url (one character stands for it)
geoserver_url == <<117>>
\* the link target of a cell that points outside the workbook
ExternalUrl == <<-3>>
\* length a group name is cut to in a sheet title
TitleLen == 25
\* HTTP status the REST helpers accept
StatusOK == 200

(* --------------------------- string helpers ---------------------------- *)
Min(a, b) == IF a < b THEN a ELSE b

\* s[:n]
Prefix(s, n) == SubSeq(s, 1, Min(n, Len(s)))

\* s.startswith(p) at position i (1-based)
StartsAt(s, p, i) ==
    /\ i + Len(p) - 1 <= Len(s)
    /\ \A j \in 1..Len(p) : s[i + j - 1] = p[j]

\* Python's order on str: lexicographic by character code
RECURSIVE StrLess(_, _)
StrLess(s, t) ==
    IF t = <<>> THEN FALSE
    ELSE IF s = <<>> THEN TRUE
    ELSE IF s[1] # t[1] THEN s[1] < t[1]
    ELSE StrLess(Tail(s), Tail(t))

\* Python's order on tuples of str
RECURSIVE TupleLess(_, _)
TupleLess(k, l) ==
    IF l = <<>> THEN FALSE
    ELSE IF k = <<>> THEN TRUE
    ELSE IF k[1] # l[1] THEN StrLess(k[1], l[1])
    ELSE TupleLess(Tail(k), Tail(l))

\* sep.join(parts)
RECURSIVE Join(_, _)
Join(parts, sep) ==
    IF parts = <<>> THEN <<>>
    ELSE IF Len(parts) = 1 THEN parts[1]
    ELSE parts[1] \o sep \o Join(Tail(parts), sep)

\* s.split(sep): always at least one piece, '' splits into ['']
RECURSIVE SplitFrom(_, _, _, _)
SplitFrom(s, sep, i, cur) ==
    IF i > Len(s) THEN <<cur>>
    ELSE IF StartsAt(s, sep, i)
         THEN <<cur>> \o SplitFrom(s, sep, i + Len(sep), <<>>)
         ELSE SplitFrom(s, sep, i + 1, Append(cur, s[i]))

Split(s, sep) == SplitFrom(s, sep, 1, <<>>)

\* s.replace(old, ''): every occurrence of old is removed, left to right
RECURSIVE RemoveFrom(_, _, _)
RemoveFrom(s, old, i) ==
    IF i > Len(s) THEN <<>>
    ELSE IF StartsAt(s, old, i) THEN RemoveFrom(s, old, i + Len(old))
    ELSE <<s[i]>> \o RemoveFrom(s, old, i + 1)

StripCgs(s) == RemoveFrom(s, CGS, 1)

\* str(x)
Str(v) == IF v = None THEN NoneStr ELSE v

\* getattr(obj, attr, 'N/A'): the default is used only when the attribute
\* does not exist; an attribute that exists and is None is returned as None
GetAttr(v) == IF v = Absent THEN NA ELSE v

IsDigit(c) == c >= 48 /\ c <= 57

RECURSIVE DigitsFrom(_, _)
DigitsFrom(s, i) ==
    IF i <= Len(s) /\ IsDigit(s[i]) THEN <<s[i]>> \o DigitsFrom(s, i + 1)
    ELSE <<>>

\* re.search(r'EPSG:\d+', str(bbox)): leftmost match, digits taken greedily
RECURSIVE EpsgFrom(_, _)
EpsgFrom(s, i) ==
    IF i > Len(s) THEN NA
    ELSE IF StartsAt(s, EPSG, i) /\ DigitsFrom(s, i + Len(EPSG)) # <<>>
         THEN EPSG \o DigitsFrom(s, i + Len(EPSG))
         ELSE EpsgFrom(s, i + 1)

extract_epsg_code(bbox) == EpsgFrom(Str(bbox), 1)

\* sorted(xs, key=...): a stable sort. Each element is paired with its key
\* and inserted after every element whose key is not greater.
RECURSIVE InsertSorted(_, _)
InsertSorted(x, sorted) ==
    IF sorted = <<>> THEN <<x>>
    ELSE IF TupleLess(x.k, sorted[1].k) THEN <<x>> \o sorted
    ELSE <<sorted[1]>> \o InsertSorted(x, Tail(sorted))

RECURSIVE SortFrom(_, _)
SortFrom(ps, n) ==
    IF n = 0 THEN <<>> ELSE InsertSorted(ps[n], SortFrom(ps, n - 1))

\* ps pairs every element v with its key k
Sorted(ps) ==
    LET out == SortFrom(ps, Len(ps)) IN [i \in 1..Len(out) |-> out[i].v]

(* ------------------------------ state ---------------------------------- *)
VARIABLES
    cat,              \* what the GeoServer catalog and its REST API answer
    pc,               \* position in the __main__ block / write_to_excel
    workspaces,       \* result of fetch_workspace_details
    stores,           \* result of fetch_store_details
    groups,           \* first result of fetch_group_details
    group_to_layers,  \* second result of fetch_group_details (a dict)
    layers,           \* result of fetch_layer_details
    styles,           \* result of fetch_styles
    wb,               \* the workbook: a sequence of sheets
    gi                \* number of groups create_group_worksheets has handled

vars == <<cat, pc, workspaces, stores, groups, group_to_layers, layers,
          styles, wb, gi>>

(* ----------------------- the catalogs considered ----------------------- *)
\* outcome of requests.get that is an exception, not a response
Raised == 0
StatusNotFound == 404

ChA == <<97>>
ChB == <<98>>
ChG == <<103>>
ChH == <<104>>
ChK == <<107>>
ChX == <<120>>
ChW == <<119>>
ChV == <<118>>
ChS == <<115>>
ChT == <<116>>
CgsG == CGS \o ChG
\* a title, an abstract, a mode, an href and two style names
TitleT == <<84>>
TitleU == <<85>>
AbstractQ == <<113>>
ModeM == <<109>>
HrefR == <<114>>
StyleD == <<100>>
StyleE == <<101>>
\* a bounding box that names a CRS, and one that does not
BoxCrs == <<40>> \o EPSG \o <<52, 51, 50, 54, 41>>
BoxPlain == <<40, 41>>
\* two group names that agree on their first TitleLen characters
LongStem == [i \in 1..TitleLen |-> 112]
Long1 == LongStem \o ChA
Long2 == LongStem \o ChB

\* all sequences without repetition over the set S, of length n
RECURSIVE Arrangements(_, _)
Arrangements(S, n) ==
    IF n = 0 THEN {<<>>}
    ELSE UNION {{Append(q, x) : x \in S \ {q[i] : i \in 1..Len(q)}} :
                q \in Arrangements(S, n - 1)}

\* all sequences over the set S, of length n
RECURSIVE Tuples(_, _)
Tuples(S, n) ==
    IF n = 0 THEN {<<>>}
    ELSE UNION {{Append(q, x) : x \in S} : q \in Tuples(S, n - 1)}

\* all ways to give n groups member lists with at most m entries in total
RECURSIVE MemberLists(_, _, _)
MemberLists(S, n, m) ==
    IF n = 0 THEN {<<>>}
    ELSE UNION {{<<l>> \o rest : rest \in MemberLists(S, n - 1, m - Len(l))} :
                l \in UNION {Tuples(S, k) : k \in 0..m}}

RestOK == [status1 |-> StatusOK, status2 |-> StatusOK, defaultStyle |-> StyleD,
           hasStyles |-> TRUE, styles |-> <<StyleD, StyleE>>]

RawWorkspace(n, h) == [name |-> n, href |-> h]
RawStore(w, n) == [workspace |-> w, name |-> n]
RawGroup(n, w, t, b, m, ls) ==
    [name |-> n, workspace |-> w, title |-> t, bounds |-> b, mode |-> m,
     layers |-> ls]
RawLayer(n, sw, st, t, bb, ab, r) ==
    [name |-> n, store_workspace |-> sw, store |-> st, title |-> t,
     latlon_bbox |-> bb, abstract |-> ab, rest |-> r]
RawStyles(st, l) == [status |-> st, style |-> l]

BaseWorkspaces == <<RawWorkspace(ChW, HrefR), RawWorkspace(ChV, Absent)>>
BaseStores == <<RawStore(ChW, ChT), RawStore(ChV, ChS), RawStore(ChW, ChS)>>
BaseStyles == RawStyles(StatusOK, <<[name |-> StyleE], [name |-> StyleD]>>)
LayerA == RawLayer(ChA, ChW, ChS, TitleT, BoxCrs, AbstractQ, RestOK)
LayerB == RawLayer(ChB, ChV, ChS, TitleU, BoxPlain, Absent, RestOK)
\* a layer that carries the name of a layer group
LayerG == RawLayer(ChG, ChW, ChT, TitleT, BoxCrs, AbstractQ, RestOK)
BaseLayers == <<LayerB, LayerA>>
BaseGroup(n, ls) == RawGroup(n, ChW, TitleU \o n, BoxCrs, ModeM, ls)
BaseGroups == <<BaseGroup(ChH, <<ChA, ChG>>), BaseGroup(ChG, <<>>)>>

Catalog(w, s, g, l, y) ==
    [workspaces |-> w, stores |-> s, layergroups |-> g, layers |-> l,
     styles |-> y]

GroupNamePool == <<ChG, ChH, ChK>>
MemberPool == {ChA, ChG, CgsG, ChX}
StorePool == {RawStore(ChW, ChS), RawStore(ChV, ChS), RawStore(ChW, ChT)}
AttrValues(v) == {Absent, None, v}

\* groups and their member lists vary; the rest is fixed
AssocGroups ==
    UNION {{[i \in 1..n |-> BaseGroup(names[i], ms[i])] :
              names \in Arrangements({GroupNamePool[i] : i \in 1..n}, n),
              ms \in MemberLists(MemberPool, n, MaxMembers)} :
           n \in 0..MaxGroups}
AssocCatalogs ==
    {Catalog(BaseWorkspaces, BaseStores, g, l, BaseStyles) :
       g \in AssocGroups, l \in {BaseLayers, <<LayerG, LayerA>>}}

\* the attributes of a workspace, a group and a layer vary between a value,
\* None and not being there
GroupAttrCatalogs ==
    {Catalog(<<RawWorkspace(ChW, h)>>, BaseStores,
             <<RawGroup(ChH, w, t, b, m, <<ChA, ChG>>), BaseGroup(ChG, <<ChB>>)>>,
             BaseLayers, BaseStyles) :
       h \in AttrValues(HrefR), w \in {None, ChW}, t \in AttrValues(TitleT),
       b \in AttrValues(BoxCrs), m \in AttrValues(ModeM)}
LayerAttrCatalogs ==
    {Catalog(BaseWorkspaces, BaseStores, BaseGroups,
             <<LayerB, RawLayer(ChA, ChW, st, t, bb, ab, RestOK)>>, BaseStyles) :
       st \in {None, ChS}, t \in AttrValues(TitleT),
       bb \in AttrValues(BoxCrs) \cup {BoxPlain}, ab \in AttrValues(AbstractQ)}

\* the answers of the REST API vary
RestAnswers ==
    {[status1 |-> s1, status2 |-> s2, defaultStyle |-> d, hasStyles |-> hs,
      styles |-> ss] :
       s1 \in {StatusOK, StatusNotFound, Raised},
       s2 \in {StatusOK, StatusNotFound, Raised},
       d \in {Absent, StyleD}, hs \in BOOLEAN,
       ss \in {<<>>, <<StyleE, StyleD>>, <<Absent>>}}
RestCatalogs ==
    {Catalog(BaseWorkspaces, BaseStores, BaseGroups,
             <<LayerB, RawLayer(ChA, ChW, ChS, TitleT, BoxCrs, AbstractQ, r)>>,
             BaseStyles) : r \in RestAnswers}
StylesCatalogs ==
    {Catalog(BaseWorkspaces, BaseStores, BaseGroups, BaseLayers,
             RawStyles(st, l)) :
       st \in {StatusOK, StatusNotFound, Raised},
       l \in {<<>>, <<[name |-> StyleD]>>, <<[name |-> Absent], [name |-> StyleD]>>}}

\* the order in which stores and layers are listed varies
OrderCatalogs ==
    {Catalog(w, s, BaseGroups, l, BaseStyles) :
       w \in {BaseWorkspaces, <<RawWorkspace(ChV, None), RawWorkspace(ChW, HrefR)>>},
       s \in UNION {Arrangements(StorePool, n) : n \in 0..MaxStores},
       l \in Arrangements({LayerA, LayerB, LayerG}, 3) \cup {<<>>}}

\* group names longer than TitleLen that agree on their first TitleLen characters
LongCatalogs ==
    {Catalog(BaseWorkspaces, BaseStores, g, BaseLayers, BaseStyles) :
       g \in {<<BaseGroup(Long1, <<ChA>>), BaseGroup(Long2, <<Long1, ChB>>)>>,
              <<BaseGroup(Long2, <<Long1>>), BaseGroup(Long1, <<ChB, ChA>>)>>,
              <<BaseGroup(Long2, <<ChA>>), BaseGroup(ChG, <<Long2>>),
                BaseGroup(Long1, <<>>)>>}}

Catalogs ==
    AssocCatalogs \cup GroupAttrCatalogs \cup LayerAttrCatalogs \cup
    RestCatalogs \cup StylesCatalogs \cup OrderCatalogs \cup LongCatalogs

(* --------------------------- fetch phase -------------------------------- *)
Slash == <<47>>

\* a dict with one more (or one overwritten) entry
DictSet(d, key, val) ==
    [n \in DOMAIN d \cup {key} |-> IF n = key THEN val ELSE d[n]]

\* dict.get(key, default)
DictGet(d, key, default) == IF key \in DOMAIN d THEN d[key] ELSE default

NormWorkspace(ws) == [name |-> ws.name, href |-> GetAttr(ws.href)]

StoreUrl(store) ==
    geoserver_url \o Slash \o store.workspace \o Slash \o store.name

NormStore(store) ==
    [workspace_name |-> store.workspace, store_name |-> store.name,
     store_url |-> StoreUrl(store)]

\* as StoreKey, but the workspace alone
StoreKeyWorkspaceOnly(x) == <<x.workspace_name>>

StoreKey(x) == <<x.workspace_name, x.store_name>>

NormGroup(group) ==
    [workspace_name |-> IF group.workspace # None THEN GetAttr(group.workspace)
                        ELSE NA,
     group_name |-> GetAttr(group.name),
     title |-> GetAttr(group.title),
     crs |-> extract_epsg_code(Str(GetAttr(group.bounds))),
     bounds |-> Str(GetAttr(group.bounds)),
     mode |-> GetAttr(group.mode),
     layers |-> Join(group.layers, SEP)]

GroupKey(x) == <<x.group_name>>

\* as AssociateMembers, but the first group that lists a layer keeps it
RECURSIVE AssociateMembersFirst(_, _, _)
AssociateMembersFirst(d, members, parent_name) ==
    IF members = <<>> THEN d
    ELSE AssociateMembersFirst(
             IF members[1] \in DOMAIN d THEN d
             ELSE DictSet(d, members[1], parent_name),
             Tail(members), parent_name)

\* the loop of lines 125-129 over one group's members: a later entry for the
\* same layer name overwrites the earlier one
RECURSIVE AssociateMembers(_, _, _)
AssociateMembers(d, members, parent_name) ==
    IF members = <<>> THEN d
    ELSE AssociateMembers(DictSet(d, members[1], parent_name), Tail(members),
                          parent_name)

\* the dict built by the loop of line 100 over all groups, in fetch order
RECURSIVE AssociateGroups(_, _)
AssociateGroups(d, gs) ==
    IF gs = <<>> THEN d
    ELSE AssociateGroups(
             AssociateMembers(d, gs[1].layers, GetAttr(gs[1].name)), Tail(gs))

fetch_default_style(r) ==
    IF r.status1 = StatusOK THEN GetAttr(r.defaultStyle) ELSE NA

fetch_available_styles(r) ==
    IF r.status2 = StatusOK /\ r.hasStyles
    THEN LET available_styles == [i \in 1..Len(r.styles) |-> GetAttr(r.styles[i])]
         IN  IF available_styles # <<>> THEN Join(available_styles, SEP) ELSE NA
    ELSE NA

NormLayer(layer, g2l) ==
    [workspace_name |-> IF layer.store # None THEN layer.store_workspace ELSE NA,
     store |-> IF layer.store # None THEN GetAttr(layer.store) ELSE NA,
     group_name |-> DictGet(g2l, layer.name, NA),
     name |-> layer.name,
     title |-> GetAttr(layer.title),
     default_style |-> fetch_default_style(layer.rest),
     available_styles |-> fetch_available_styles(layer.rest),
     crs |-> extract_epsg_code(GetAttr(layer.latlon_bbox)),
     bbox |-> GetAttr(layer.latlon_bbox),
     abstract |-> GetAttr(layer.abstract)]

LayerKey(x) == <<x.workspace_name, x.store, x.group_name, x.name>>

SortStores(xs) ==
    Sorted([i \in 1..Len(xs) |-> [k |-> StoreKey(xs[i]), v |-> xs[i]]])
SortGroups(xs) ==
    Sorted([i \in 1..Len(xs) |-> [k |-> GroupKey(xs[i]), v |-> xs[i]]])
SortLayers(xs) ==
    Sorted([i \in 1..Len(xs) |-> [k |-> LayerKey(xs[i]), v |-> xs[i]]])

\* requests.get raises for some layer: nothing catches it
LayerLookupRaises(ls) ==
    \E i \in 1..Len(ls) :
        ls[i].rest.status1 = Raised \/ ls[i].rest.status2 = Raised

\* the lists the fetch functions return
WorkspaceList(raws) == [n \in 1..Len(raws) |-> NormWorkspace(raws[n])]
StoreList(raws) == SortStores([n \in 1..Len(raws) |-> NormStore(raws[n])])
GroupList(raws) == SortGroups([n \in 1..Len(raws) |-> NormGroup(raws[n])])
LayerList(raws, g2l) ==
    SortLayers([n \in 1..Len(raws) |-> NormLayer(raws[n], g2l)])

fetch_workspace_details ==
    /\ pc = "fetch_workspaces"
    /\ workspaces' = WorkspaceList(cat.workspaces)
    /\ pc' = "fetch_stores"
    /\ UNCHANGED <<cat, stores, groups, group_to_layers, layers, styles, wb, gi>>

fetch_store_details ==
    /\ pc = "fetch_stores"
    /\ stores' = StoreList(cat.stores)
    /\ pc' = "fetch_groups"
    /\ UNCHANGED <<cat, workspaces, groups, group_to_layers, layers, styles,
                   wb, gi>>

fetch_group_details ==
    /\ pc = "fetch_groups"
    /\ groups' = GroupList(cat.layergroups)
    /\ group_to_layers' = AssociateGroups(<<>>, cat.layergroups)
    /\ pc' = "fetch_layers"
    /\ UNCHANGED <<cat, workspaces, stores, layers, styles, wb, gi>>

fetch_layer_details ==
    /\ pc = "fetch_layers"
    /\ ~LayerLookupRaises(cat.layers)
    /\ layers' = LayerList(cat.layers, group_to_layers)
    /\ pc' = "fetch_styles"
    /\ UNCHANGED <<cat, workspaces, stores, groups, group_to_layers, styles,
                   wb, gi>>

\* the exception of requests.get leaves fetch_layer_details and the program
fetch_layer_details_raises ==
    /\ pc = "fetch_layers"
    /\ LayerLookupRaises(cat.layers)
    /\ pc' = "aborted"
    /\ UNCHANGED <<cat, workspaces, stores, groups, group_to_layers, layers,
                   styles, wb, gi>>

\* lines 170-174: the list of the answer, the empty list unless the status is 200
StylesList(response) ==
    IF response.status = StatusOK THEN response.style ELSE <<>>

fetch_styles ==
    /\ pc = "fetch_styles"
    /\ cat.styles.status # Raised
    /\ styles' = StylesList(cat.styles)
    /\ pc' = "write_workspaces"
    /\ UNCHANGED <<cat, workspaces, stores, groups, group_to_layers, layers,
                   wb, gi>>

fetch_styles_raises ==
    /\ pc = "fetch_styles"
    /\ cat.styles.status = Raised
    /\ pc' = "aborted"
    /\ UNCHANGED <<cat, workspaces, stores, groups, group_to_layers, layers,
                   styles, wb, gi>>

(* --------------------------- the workbook ------------------------------- *)
\* A sheet holds its title, its data rows (sheet row r is rows[r - 1], row 1
\* being the header) and the hyperlinks of its cells.
Sheet(t, rs, ls) == [title |-> t, rows |-> rs, links |-> ls]

\* a hyperlink of cell (row, col) to cell (trow, tcol) of the sheet tsheet
Link(r, c, ts, tc, tr) ==
    [row |-> r, col |-> c, tsheet |-> ts, tcol |-> tc, trow |-> tr]

Titles(book) == {book[i].title : i \in 1..Len(book)}

\* wb[title]
SheetByTitle(book, t) ==
    book[CHOOSE i \in 1..Len(book) :
            /\ book[i].title = t
            /\ \A j \in 1..(i - 1) : book[j].title # t]

\* as Lookup, but with row numbers counted from idx + 3
LookupShifted(rows, col) ==
    [v \in {rows[i][col] : i \in 1..Len(rows)} |->
        2 + CHOOSE i \in 1..Len(rows) :
                /\ rows[i][col] = v
                /\ \A j \in (i + 1)..Len(rows) : rows[j][col] # v]

\* {row[col]: idx + 2 for idx, row in enumerate(iter_rows(min_row=2))}: the row
\* number of the last row that holds the value
Lookup(rows, col) ==
    [v \in {rows[i][col] : i \in 1..Len(rows)} |->
        1 + CHOOSE i \in 1..Len(rows) :
                /\ rows[i][col] = v
                /\ \A j \in (i + 1)..Len(rows) : rows[j][col] # v]

\* {row[0]: row[1] for row in iter_rows(min_row=2)}
ValueMap(rows, kcol, vcol) ==
    [v \in {rows[i][kcol] : i \in 1..Len(rows)} |->
        rows[CHOOSE i \in 1..Len(rows) :
                /\ rows[i][kcol] = v
                /\ \A j \in (i + 1)..Len(rows) : rows[j][kcol] # v][vcol]]

\* the title openpyxl gives a new sheet: a title that is taken gets the next
\* free number appended
Digit(n) == <<48 + n>>
avoid_duplicate_name(names, value) ==
    IF value \notin names THEN value
    ELSE LET counts == {n \in 1..8 : (value \o Digit(n)) \in names}
             highest == IF counts = {} THEN 0
                        ELSE CHOOSE n \in counts : \A m \in counts : m <= n
         IN  value \o Digit(highest + 1)

\* f"Group {group_name[:25]}"
GroupSheetTitle(group_name) == GroupPrefix \o Prefix(group_name, TitleLen)

\* the keys of a dict in insertion order
RECURSIVE DictKeys(_)
DictKeys(ks) ==
    IF ks = <<>> THEN <<>>
    ELSE LET front == DictKeys(SubSeq(ks, 1, Len(ks) - 1))
             last == ks[Len(ks)]
         IN  IF \E i \in 1..Len(front) : front[i] = last THEN front
             ELSE Append(front, last)

(* --------------------------- write_to_excel ----------------------------- *)
WorkspaceRow(w) == <<w.name, w.href>>
StoreRow(st) == <<st.workspace_name, st.store_name, st.store_url>>
GroupRow(g) == <<g.group_name, g.title, g.crs, g.bounds, g.mode, g.layers>>
LayerRow(l) ==
    <<l.workspace_name, l.store, l.group_name, l.name, l.title,
      l.default_style, l.available_styles, l.crs, Str(l.bbox), l.abstract>>
StyleRow(y) == <<GetAttr(y.name), geoserver_url \o Slash \o GetAttr(y.name)>>

\* as GroupSheetLinkRow, but the first data row A2
GroupSheetLinkFirstDataRow == 1 + 1

\* the data rows of the five main sheets
WorkspaceRows(xs) == [n \in 1..Len(xs) |-> WorkspaceRow(xs[n])]
StoreRows(xs) == [n \in 1..Len(xs) |-> StoreRow(xs[n])]
GroupRows(xs) == [n \in 1..Len(xs) |-> GroupRow(xs[n])]
LayerRows(xs) == [n \in 1..Len(xs) |-> LayerRow(xs[n])]
StyleRows(xs) == [n \in 1..Len(xs) |-> StyleRow(xs[n])]

\* the row of the sheet a Layer Groups row links to: the header cell A1
GroupSheetLinkRow == 1

write_workspaces ==
    /\ pc = "write_workspaces"
    /\ wb' = <<Sheet(TWorkspaces, WorkspaceRows(workspaces), {})>>
    /\ pc' = "write_stores"
    /\ UNCHANGED <<cat, workspaces, stores, groups, group_to_layers, layers,
                   styles, gi>>

\* lines 380-397: every store row is linked to its workspace as it is written
StoresLinks(wss, sts) ==
    LET workspace_lookup == Lookup(WorkspaceRows(wss), 1)
    IN  {Link(i + 1, 1, TWorkspaces, 1, workspace_lookup[sts[i].workspace_name]) :
           i \in {k \in 1..Len(sts) :
                    sts[k].workspace_name \in DOMAIN workspace_lookup}}

write_stores ==
    /\ pc = "write_stores"
    /\ wb' = Append(wb, Sheet(TStores, StoreRows(stores),
                              StoresLinks(workspaces, stores)))
    /\ pc' = "write_groups"
    /\ UNCHANGED <<cat, workspaces, stores, groups, group_to_layers, layers,
                   styles, gi>>

\* lines 403-423: the hyperlinks of the Layer Groups sheet
GroupsLinks(gs) ==
    LET group_worksheets == DictKeys([n \in 1..Len(gs) |-> gs[n].group_name])
    IN  {Link(i + 1, 1, GroupSheetTitle(group_worksheets[i]), 1,
              GroupSheetLinkRow) : i \in 1..Len(group_worksheets)}
        \cup {Link(1, 6, TLayers, 1, 1)}

write_groups ==
    /\ pc = "write_groups"
    /\ wb' = Append(wb, Sheet(TLayerGroups, GroupRows(groups),
                              GroupsLinks(groups)))
    /\ pc' = "write_layers"
    /\ UNCHANGED <<cat, workspaces, stores, groups, group_to_layers, layers,
                   styles, gi>>

add_header_hyperlinks_layers ==
    {Link(1, 1, TWorkspaces, 1, 1), Link(1, 2, TStores, 1, 1),
     Link(1, 3, TLayerGroups, 1, 1), Link(1, 6, TStyles, 1, 1)}

write_layers ==
    /\ pc = "write_layers"
    /\ wb' = Append(wb, Sheet(TLayers, LayerRows(layers),
                              add_header_hyperlinks_layers))
    /\ pc' = "write_styles"
    /\ UNCHANGED <<cat, workspaces, stores, groups, group_to_layers, layers,
                   styles, gi>>

StylesLinks(ys) ==
    {Link(i + 1, c, ExternalUrl, 0, 0) : i \in 1..Len(ys), c \in {1, 2}}

write_styles ==
    /\ pc = "write_styles"
    /\ wb' = Append(wb, Sheet(TStyles, StyleRows(styles),
                              StylesLinks(styles)))
    /\ pc' = "group_sheets"
    /\ UNCHANGED <<cat, workspaces, stores, groups, group_to_layers, layers,
                   styles, gi>>

(* ----------------------- create_group_worksheets ------------------------ *)
\* next((layer for layer in layers if layer['name'] == layer_name), None):
\* the index of the first layer of that name, 0 when there is none
MatchingLayer(ls, layer_name) ==
    IF \E i \in 1..Len(ls) : ls[i].name = layer_name
    THEN CHOOSE i \in 1..Len(ls) :
            /\ ls[i].name = layer_name
            /\ \A j \in 1..(i - 1) : ls[j].name # layer_name
    ELSE 0

\* lines 188-212: the row appended for one piece of group['layers']
MemberRow(group, ls, layer_name) ==
    LET m == MatchingLayer(ls, layer_name)
    IN  IF m # 0
        THEN <<ls[m].workspace_name, ls[m].store, group.group_name, group.title,
               TypeLayer, ls[m].name, ls[m].title, ls[m].default_style>>
        ELSE <<group.workspace_name, NA, group.group_name, group.title,
               TypeLayerGroup, layer_name, NA, NA>>

\* lines 187-212: one row for every piece of the joined member string
MemberRows(group, ls) ==
    LET pieces == Split(group.layers, SEP)
    IN  [k \in 1..Len(pieces) |-> MemberRow(group, ls, pieces[k])]

\* as populate_child_title, but without the test of the Type column
populate_child_title_any_type(book, rows) ==
    LET layer_group_map == ValueMap(SheetByTitle(book, TLayerGroups).rows, 1, 2)
    IN  [k \in 1..Len(rows) |->
           IF StripCgs(rows[k][6]) \in DOMAIN layer_group_map
           THEN [rows[k] EXCEPT ![7] = layer_group_map[StripCgs(rows[k][6])]]
           ELSE rows[k]]

\* as populate_child_title, but the member name is looked up as it is written
populate_child_title_exact(book, rows) ==
    LET layer_group_map == ValueMap(SheetByTitle(book, TLayerGroups).rows, 1, 2)
    IN  [k \in 1..Len(rows) |->
           IF /\ rows[k][5] = TypeLayerGroup
              /\ rows[k][6] \in DOMAIN layer_group_map
           THEN [rows[k] EXCEPT ![7] = layer_group_map[rows[k][6]]]
           ELSE rows[k]]

populate_child_title(book, rows) ==
    LET layer_group_map == ValueMap(SheetByTitle(book, TLayerGroups).rows, 1, 2)
    IN  [k \in 1..Len(rows) |->
           IF /\ rows[k][5] = TypeLayerGroup
              /\ StripCgs(rows[k][6]) \in DOMAIN layer_group_map
           THEN [rows[k] EXCEPT ![7] = layer_group_map[StripCgs(rows[k][6])]]
           ELSE rows[k]]

add_header_hyperlinks ==
    {Link(1, 1, TWorkspaces, 1, 1), Link(1, 2, TStores, 1, 1),
     Link(1, 3, TLayerGroups, 1, 1), Link(1, 6, TLayers, 1, 1),
     Link(1, 8, TStyles, 1, 1)}

\* as ColumnLinks, but a cell whose value is no key is linked to the first row
ColumnLinksAlways(rows, col, lookup, tsheet, tcol) ==
    {Link(k + 1, col, tsheet, tcol,
          IF rows[k][col] \in DOMAIN lookup THEN lookup[rows[k][col]] ELSE 2) :
       k \in 1..Len(rows)}

\* the hyperlinks link_columns_with_sheets gives the cells of column col:
\* a cell is linked when its value is a key of the lookup
ColumnLinks(rows, col, lookup, tsheet, tcol) ==
    {Link(k + 1, col, tsheet, tcol, lookup[rows[k][col]]) :
       k \in {i \in 1..Len(rows) : rows[i][col] \in DOMAIN lookup}}

link_columns_with_sheets(rows, book) ==
    LET workspace_lookup == Lookup(SheetByTitle(book, TWorkspaces).rows, 1)
        store_lookup == Lookup(SheetByTitle(book, TStores).rows, 2)
        group_lookup == Lookup(SheetByTitle(book, TLayerGroups).rows, 1)
        layer_lookup == Lookup(SheetByTitle(book, TLayers).rows, 4)
        style_lookup == Lookup(SheetByTitle(book, TStyles).rows, 1)
    IN  ColumnLinks(rows, 1, workspace_lookup, TWorkspaces, 1)
        \cup ColumnLinks(rows, 2, store_lookup, TStores, 2)
        \cup ColumnLinks(rows, 3, group_lookup, TLayerGroups, 1)
        \cup ColumnLinks(rows, 6, layer_lookup, TLayers, 4)
        \cup ColumnLinks(rows, 8, style_lookup, TStyles, 1)

\* the rows add_layer_group_hyperlinks links: type "Layer Group" and the
\* name, without 'cgs:', is a key of group_name_map
GroupLinked(rows, group_name_map) ==
    {k \in 1..Len(rows) :
       /\ rows[k][5] = TypeLayerGroup
       /\ StripCgs(rows[k][6]) \in DOMAIN group_name_map}

add_layer_group_hyperlinks(book, rows, links) ==
    LET group_name_map == Lookup(SheetByTitle(book, TLayerGroups).rows, 1)
        linked == GroupLinked(rows, group_name_map)
    IN  {l \in links : ~(l.col = 6 /\ (l.row - 1) \in linked)}
        \cup {Link(k + 1, 6, TLayerGroups, 1,
                   group_name_map[StripCgs(rows[k][6])]) : k \in linked}

\* the sheet one iteration of the loop of line 178 adds to the workbook
GroupSheet(book, group, ls) ==
    LET title == avoid_duplicate_name(Titles(book),
                                      GroupSheetTitle(group.group_name))
        rows == populate_child_title(book, MemberRows(group, ls))
        links == add_header_hyperlinks \cup link_columns_with_sheets(rows, book)
    IN  Sheet(title, rows, add_layer_group_hyperlinks(book, rows, links))

create_group_worksheets ==
    /\ pc = "group_sheets"
    /\ gi < Len(groups)
    /\ wb' = Append(wb, GroupSheet(wb, groups[gi + 1], layers))
    /\ gi' = gi + 1
    /\ UNCHANGED <<cat, pc, workspaces, stores, groups, group_to_layers,
                   layers, styles>>

\* wb.save(output_file)
save ==
    /\ pc = "group_sheets"
    /\ gi = Len(groups)
    /\ pc' = "done"
    /\ UNCHANGED <<cat, workspaces, stores, groups, group_to_layers, layers,
                   styles, wb, gi>>

(* --------------------------- specification ------------------------------ *)
Init ==
    /\ cat \in Catalogs
    /\ pc = "fetch_workspaces"
    /\ workspaces = <<>>
    /\ stores = <<>>
    /\ groups = <<>>
    /\ group_to_layers = <<>>
    /\ layers = <<>>
    /\ styles = <<>>
    /\ wb = <<>>
    /\ gi = 0

Next ==
    \/ fetch_workspace_details
    \/ fetch_store_details
    \/ fetch_group_details
    \/ fetch_layer_details
    \/ fetch_layer_details_raises
    \/ fetch_styles
    \/ fetch_styles_raises
    \/ write_workspaces
    \/ write_stores
    \/ write_groups
    \/ write_layers
    \/ write_styles
    \/ create_group_worksheets
    \/ save

Spec == Init /\ [][Next]_vars

TypeOK ==
    /\ pc \in {"fetch_workspaces", "fetch_stores", "fetch_groups",
               "fetch_layers", "fetch_styles", "write_workspaces",
               "write_stores", "write_groups", "write_layers", "write_styles",
               "group_sheets", "done", "aborted"}
    /\ gi \in 0..Len(groups)

(* ------------------------ notions used by the claims -------------------- *)
Done == pc = "done"

\* fetch_layer_details has returned
LayersFetched ==
    pc \in {"fetch_styles", "write_workspaces", "write_stores", "write_groups",
            "write_layers", "write_styles", "group_sheets", "done"}

Elems(q) == {q[i] : i \in 1..Len(q)}

\* the catalog's groups that list the name among their members
Owners(name) ==
    {j \in 1..Len(cat.layergroups) : name \in Elems(cat.layergroups[j].layers)}

Last(S) == CHOOSE n \in S : \A m \in S : m <= n

\* the sheet create_group_worksheets made for groups[k]
GroupSheetOf(k) == wb[5 + k]

\* the catalog's group of that name
RawGroupOf(name) ==
    cat.layergroups[CHOOSE j \in 1..Len(cat.layergroups) :
                       GetAttr(cat.layergroups[j].name) = name]

\* the hyperlinks of data cells that point into the workbook
DataLinks(sh) == {l \in sh.links : l.row >= 2 /\ l.tsheet # ExternalUrl}

\* the link names a sheet of the workbook and one of its data rows
PointsAtDataRow(l) ==
    /\ l.tsheet \in Titles(wb)
    /\ l.trow >= 2
    /\ l.trow <= 1 + Len(SheetByTitle(wb, l.tsheet).rows)

(* ------------------------------- C1 ------------------------------------- *)
\* C1 as claimed: after fetch_group_details and fetch_layer_details a layer's
\* group_name equals the name of every group that lists the layer, and is
\* 'N/A' when no group lists it.
C1_OwnerIsEveryListingGroup ==
    LayersFetched =>
        \A i \in 1..Len(layers) :
            /\ \A j \in Owners(layers[i].name) :
                   layers[i].group_name = GetAttr(cat.layergroups[j].name)
            /\ Owners(layers[i].name) = {} => layers[i].group_name = NA

\* C1 amended: a layer's group_name is the name of the last group, in the
\* order the catalog lists the groups, whose member list holds the layer's
\* name, and 'N/A' when no group lists it.
C1_OwnerIsLastListingGroup ==
    LayersFetched =>
        \A i \in 1..Len(layers) :
            layers[i].group_name =
                IF Owners(layers[i].name) = {} THEN NA
                ELSE GetAttr(cat.layergroups[Last(Owners(layers[i].name))].name)

C1_Witness ==
    /\ Done
    /\ \E i \in 1..Len(layers) : Cardinality(Owners(layers[i].name)) >= 2
    /\ \E i \in 1..Len(layers) : Owners(layers[i].name) = {}

(* ------------------------------- C2 ------------------------------------- *)
Missing(v) == v \in {Absent, None}

\* C2 as claimed: an attribute that is absent or None in the catalog is the
\* string 'N/A' in the normalised record and in the cell of the final sheet.
C2_MissingIsSentinel ==
    Done =>
        /\ \A i \in 1..Len(workspaces) :
               Missing(cat.workspaces[i].href) =>
                   workspaces[i].href = NA /\ wb[1].rows[i][2] = NA
        /\ \A k \in 1..Len(groups) :
               LET raw == RawGroupOf(groups[k].group_name)
                   row == wb[3].rows[k]
               IN  /\ Missing(raw.title) => groups[k].title = NA /\ row[2] = NA
                   /\ Missing(raw.bounds) => groups[k].bounds = NA /\ row[4] = NA
                   /\ Missing(raw.mode) => groups[k].mode = NA /\ row[5] = NA
                   /\ Missing(raw.workspace) => groups[k].workspace_name = NA
        /\ \A k \in 1..Len(layers) :
               LET raw == CHOOSE l \in Elems(cat.layers) : l.name = layers[k].name
                   row == wb[4].rows[k]
               IN  /\ Missing(raw.title) => layers[k].title = NA /\ row[5] = NA
                   /\ Missing(raw.latlon_bbox) => layers[k].bbox = NA /\ row[9] = NA
                   /\ Missing(raw.abstract) => layers[k].abstract = NA /\ row[10] = NA
                   /\ Missing(raw.store) => layers[k].store = NA /\ row[2] = NA

(* ------------------------------- C3 ------------------------------------- *)
\* C3 as claimed: in the final workbook every internal hyperlink of a data
\* cell names an existing sheet and a row r with 2 <= r <= 1 + number of data
\* rows of that sheet.
C3_LinksPointAtDataRows ==
    Done =>
        \A s \in 1..Len(wb) : \A l \in DataLinks(wb[s]) : PointsAtDataRow(l)

\* C3 amended: the hyperlink of a Group Name cell of the Layer Groups sheet
\* names an existing sheet and its header cell A1; every other internal
\* hyperlink of a data cell names an existing sheet and one of its data rows.
C3_LinksPointAtExistingCells ==
    Done =>
        \A s \in 1..Len(wb) : \A l \in DataLinks(wb[s]) :
            IF wb[s].title = TLayerGroups
            THEN l.tsheet \in Titles(wb) /\ l.trow = 1 /\ l.tcol = 1
            ELSE PointsAtDataRow(l)

C3_Witness ==
    /\ Done
    /\ \E i, j \in 1..Len(groups) :
           /\ i # j
           /\ Len(groups[i].group_name) > TitleLen
           /\ Prefix(groups[i].group_name, TitleLen)
                = Prefix(groups[j].group_name, TitleLen)
    /\ \E i, j \in 1..Len(stores) :
           /\ stores[i].store_name = stores[j].store_name
           /\ stores[i].workspace_name # stores[j].workspace_name
    /\ \E k \in 1..Len(groups) :
           \A c \in {1, 2, 3, 6, 8} :
               \E l \in DataLinks(GroupSheetOf(k)) : l.col = c

(* ------------------------------- C4 ------------------------------------- *)
\* the Layer column of a sheet
MemberColumn(sh) == [r \in 1..Len(sh.rows) |-> sh.rows[r][6]]

\* C4 as claimed: the sub-sheet of a group has one data row per entry of the
\* group's member list, in the same order, the Layer cell being that entry;
\* no entries give no rows.
C4_RowsAreTheMembers ==
    Done =>
        \A k \in 1..Len(groups) :
            MemberColumn(GroupSheetOf(k)) = RawGroupOf(groups[k].group_name).layers

(* ------------------------------- C5 ------------------------------------- *)
\* C5: a row of a group sub-sheet has type "Layer" exactly when its member
\* name is the name of a known layer and type "Layer Group" otherwise; a
\* "Layer" row takes workspace, store, title and style from the matched
\* layer, also when a group carries the same name.
C5_LayerWins ==
    Done =>
        \A k \in 1..Len(groups) :
            \A r \in 1..Len(GroupSheetOf(k).rows) :
                LET row == GroupSheetOf(k).rows[r]
                    m == MatchingLayer(layers, row[6])
                IN  /\ row[5] \in {TypeLayer, TypeLayerGroup}
                    /\ row[5] = TypeLayer <=> row[6] \in {l.name : l \in Elems(layers)}
                    /\ row[5] = TypeLayer =>
                           /\ row[1] = layers[m].workspace_name
                           /\ row[2] = layers[m].store
                           /\ row[7] = layers[m].title
                           /\ row[8] = layers[m].default_style

C5_Witness ==
    /\ Done
    /\ \E k \in 1..Len(groups) :
           \E r \in 1..Len(GroupSheetOf(k).rows) :
               LET row == GroupSheetOf(k).rows[r]
               IN  /\ row[5] = TypeLayer
                   /\ \E g \in Elems(groups) :
                          g.group_name = row[6] /\ g.title # row[7]

(* ------------------------------- C6 ------------------------------------- *)
\* the title of the group of that name, 'N/A' when no group has the name
TitleOfGroup(name) ==
    IF \E g \in Elems(groups) : g.group_name = name
    THEN groups[Last({i \in 1..Len(groups) : groups[i].group_name = name})].title
    ELSE NA

\* what C6 says of every "Layer Group" row but the title
NestedRowFields(k) ==
    \A r \in 1..Len(GroupSheetOf(k).rows) :
        LET row == GroupSheetOf(k).rows[r]
        IN  row[5] = TypeLayerGroup =>
                /\ row[1] = groups[k].workspace_name
                /\ row[2] = NA
                /\ row[8] = NA

\* C6 as claimed: a "Layer Group" row has the group's workspace, store and
\* style 'N/A', and as member title the title of the group whose name equals
\* the member name, 'N/A' when there is no such group.
C6_TitleOfGroupNamedAsMember ==
    Done =>
        \A k \in 1..Len(groups) :
            /\ NestedRowFields(k)
            /\ \A r \in 1..Len(GroupSheetOf(k).rows) :
                   LET row == GroupSheetOf(k).rows[r]
                   IN  row[5] = TypeLayerGroup => row[7] = TitleOfGroup(row[6])

\* C6 amended: the member title of a "Layer Group" row is the title of the
\* group whose name equals the member name with every 'cgs:' removed, 'N/A'
\* when there is no such group; workspace, store and style are as claimed and
\* the sheet has one row per piece of the joined member string.
C6_TitleOfGroupNamedAsStrippedMember ==
    Done =>
        \A k \in 1..Len(groups) :
            /\ NestedRowFields(k)
            /\ Len(GroupSheetOf(k).rows) = Len(Split(groups[k].layers, SEP))
            /\ \A r \in 1..Len(GroupSheetOf(k).rows) :
                   LET row == GroupSheetOf(k).rows[r]
                   IN  row[5] = TypeLayerGroup =>
                           row[7] = TitleOfGroup(StripCgs(row[6]))

C6_Witness ==
    /\ Done
    /\ \E k \in 1..Len(groups) :
           \E r \in 1..Len(GroupSheetOf(k).rows) :
               LET row == GroupSheetOf(k).rows[r]
               IN  /\ row[5] = TypeLayerGroup
                   /\ StripCgs(row[6]) # row[6]
                   /\ row[7] # NA
    /\ \E k \in 1..Len(groups) :
           \E r \in 1..Len(GroupSheetOf(k).rows) :
               LET row == GroupSheetOf(k).rows[r]
               IN  /\ row[5] = TypeLayerGroup
                   /\ \E g \in Elems(groups) :
                          g.group_name = row[6] /\ row[7] = g.title

(* ------------------------------- C7 ------------------------------------- *)
LayerNames == {l.name : l \in Elems(layers)}
GroupNames == {g.group_name : g \in Elems(groups)}

HasLink(sh, r, c) == \E l \in sh.links : l.row = r + 1 /\ l.col = c

\* the keys of the lookup table behind a column of a group sub-sheet
KeysOfColumn(c) ==
    IF c = 1 THEN {w.name : w \in Elems(workspaces)}
    ELSE IF c = 2 THEN {st.store_name : st \in Elems(stores)}
    ELSE IF c = 3 THEN GroupNames
    ELSE {GetAttr(y.name) : y \in Elems(styles)}

\* the cells of columns Workspace, Store, Group and Style whose value is no
\* key are without hyperlink
OtherColumnsUnlinked(sh) ==
    \A r \in 1..Len(sh.rows) : \A c \in {1, 2, 3, 8} :
        sh.rows[r][c] \notin KeysOfColumn(c) => ~HasLink(sh, r, c)

\* C7 as claimed: a member name that is no layer name and no group name gives
\* a row of type "Layer Group" with member title 'N/A' and no hyperlink on
\* the member-name cell; a cell whose value is a key of no lookup table has
\* no hyperlink.
C7_UnknownMemberUnlinked ==
    Done =>
        \A k \in 1..Len(groups) :
            LET sh == GroupSheetOf(k)
            IN  /\ OtherColumnsUnlinked(sh)
                /\ \A r \in 1..Len(sh.rows) :
                       sh.rows[r][6] \notin (LayerNames \cup GroupNames) =>
                           /\ sh.rows[r][5] = TypeLayerGroup
                           /\ sh.rows[r][7] = NA
                           /\ ~HasLink(sh, r, 6)

\* C7 amended: a member name that is no layer name and that, with every
\* 'cgs:' removed, is no group name gives a row of type "Layer Group" with
\* member title 'N/A' and no hyperlink on the member-name cell; the cells of
\* the other linked columns have no hyperlink when their value is no key.
C7_UnknownStrippedMemberUnlinked ==
    Done =>
        \A k \in 1..Len(groups) :
            LET sh == GroupSheetOf(k)
            IN  /\ OtherColumnsUnlinked(sh)
                /\ \A r \in 1..Len(sh.rows) :
                       (/\ sh.rows[r][6] \notin LayerNames
                        /\ StripCgs(sh.rows[r][6]) \notin GroupNames) =>
                           /\ sh.rows[r][5] = TypeLayerGroup
                           /\ sh.rows[r][7] = NA
                           /\ ~HasLink(sh, r, 6)

C7_Witness ==
    /\ Done
    /\ \E k \in 1..Len(groups) :
           \E r \in 1..Len(GroupSheetOf(k).rows) :
               LET row == GroupSheetOf(k).rows[r]
               IN  /\ row[6] = ChX
                   /\ row[6] \notin LayerNames
                   /\ StripCgs(row[6]) \notin GroupNames
                   /\ HasLink(GroupSheetOf(k), r, 1)

(* ------------------------------- C8 ------------------------------------- *)
\* the rows of every sheet of the report have been written
AllRowsWritten ==
    /\ pc \in {"group_sheets", "done"}
    /\ Len(wb) = 5 + Len(groups)

SomeDataCellLinked == \E s \in 1..Len(wb) : DataLinks(wb[s]) # {}

\* C8 as claimed: no data cell carries a hyperlink until the rows of all
\* sheets, the group sub-sheets included, have been written.
C8_NoLinkBeforeAllRows == SomeDataCellLinked => AllRowsWritten

\* C8 amended: a hyperlink that addresses a data row is attached only when
\* its destination sheet has been completely written: the destination is a
\* sheet written before the sheet that holds the link, and the row is one of
\* its data rows. Linking and the writing of later sheets are interleaved.
C8_LinkedRowsAreWritten ==
    \A s \in 1..Len(wb) : \A l \in DataLinks(wb[s]) :
        l.trow >= 2 =>
            /\ \E t \in 1..(s - 1) : wb[t].title = l.tsheet
            /\ PointsAtDataRow(l)

C8_Witness ==
    /\ SomeDataCellLinked
    /\ ~AllRowsWritten
    /\ pc = "group_sheets"
    /\ \E l \in DataLinks(wb[Len(wb)]) : l.trow >= 2 /\ l.tsheet = TLayers

(* ------------------------------- C9 ------------------------------------- *)
\* the catalog's layer of that name
RawLayerOf(name) == CHOOSE l \in Elems(cat.layers) : l.name = name

\* C9 as claimed: a style lookup that fails, by a status other than 200 or
\* by the request raising, makes the layer's style fields 'N/A' and never
\* ends the run.
C9_StyleFailureIsLocal ==
    /\ LayerLookupRaises(cat.layers) => pc # "aborted"
    /\ LayersFetched =>
           \A k \in 1..Len(layers) :
               LET r == RawLayerOf(layers[k].name).rest
               IN  /\ r.status1 # StatusOK => layers[k].default_style = NA
                   /\ r.status2 # StatusOK => layers[k].available_styles = NA

(* ------------------------------- C10 ------------------------------------ *)
\* every order in which the elements of the sequence can be listed
Reorderings(q) ==
    {[i \in 1..Len(q) |-> q[p[i]]] : p \in Arrangements(1..Len(q), Len(q))}

\* the rows are in nondecreasing order of the cells of the columns cols
RowsNondecreasing(rows, cols) ==
    \A i, j \in 1..Len(rows) :
        i < j => ~TupleLess([c \in 1..Len(cols) |-> rows[j][cols[c]]],
                            [c \in 1..Len(cols) |-> rows[i][cols[c]]])

LinksOfCell(sh, r, c) == {l \in sh.links : l.row = r + 1 /\ l.col = c}

\* C11 as claimed: the hyperlink of the Group Name cell of row k of the
\* Layer Groups sheet names the sheet create_group_worksheets made for the
\* group of that row, also for group names that agree on their first 25
\* characters.
C11_IndexRowLinksOwnSheet ==
    Done =>
        \A k \in 1..Len(groups) :
            /\ wb[3].rows[k][1] = groups[k].group_name
            /\ LinksOfCell(wb[3], k, 1) # {}
            /\ \A l \in LinksOfCell(wb[3], k, 1) :
                   l.tsheet = GroupSheetOf(k).title

(* ------------------------------- C12 ------------------------------------ *)
\* C12 as claimed: in a group sub-sheet the hyperlink of the Store cell of a
\* "Layer" row leads to the row of the Stores sheet that holds the same store
\* name and the same workspace name as the member row, also when two
\* workspaces hold a store of the same name.
C12_StoreLinkIsOwnStore ==
    Done =>
        \A k \in 1..Len(groups) :
            \A r \in 1..Len(GroupSheetOf(k).rows) :
                LET row == GroupSheetOf(k).rows[r]
                IN  row[5] = TypeLayer =>
                        \A l \in LinksOfCell(GroupSheetOf(k), r, 2) :
                            /\ l.tsheet = TStores
                            /\ PointsAtDataRow(l)
                            /\ wb[2].rows[l.trow - 1][2] = row[2]
                            /\ wb[2].rows[l.trow - 1][1] = row[1]

====
